---- MODULE Spec2Model ----
(***************************************************************************)
(* Credential provider, backend client and tool dispatch of the Azure      *)
(* DevOps MCP server (src/src/azure-devops-client.ts, src/src/index.ts,    *)
(* src/src/functions/mcp.ts, src/src/remote-bridge.ts).                    *)
(*                                                                         *)
(* One behaviour is one server process of one deployment (adapter): the    *)
(* stdio server, the HTTP function app, or the stdio-to-HTTP bridge.       *)
(* Dispatches are async handlers on a single-threaded event loop: a step   *)
(* of a dispatch runs from one await to the next; a continuation whose     *)
(* awaited promise is already settled is a microtask, and no I/O event     *)
(* (request arrival, end of a token exchange, HTTP response) is delivered  *)
(* while a microtask is runnable.  The clock may advance at any point.     *)
(***************************************************************************)
EXTENDS Integers, Sequences, FiniteSets, TLC

\* ------------------------------------------------------------- bounds
NDispatch == 2      \* dispatches that may be in flight at once
MaxRequests == 2    \* tool invocations started in one behaviour
MaxTicks == 1       \* clock advances in one behaviour
MaxKeyPositions == 2   \* key positions one HTTP request fills
TickMs == 1000      \* length of one clock advance, in milliseconds

\* -------------------------------------------------- program constants
RefreshMarginMs == 60000           \* Date.now() + 60000
DefaultLifetimeMs == 3600 * 1000   \* Date.now() + 3600 * 1000

Dispatches == 1..NDispatch
Null == [k |-> "null", v |-> 0]

\* What the upstream credential may answer: expiresOnTimestamp as an offset
\* from the time of the answer; 0 stands for a missing (falsy) timestamp.
Lifetimes == {0, RefreshMarginMs, RefreshMarginMs + TickMs}

Adapters == {"stdio", "mcp", "bridge"}

VARIABLES
  USE_PAT,           \* !!process.env.AZURE_DEVOPS_PAT, fixed at startup
  adapter,           \* the deployment this process is
  AZURE_DEVOPS_ORG_URL,  \* process.env.AZURE_DEVOPS_ORG_URL, fixed at startup
  workload,          \* the tool names the requests of this behaviour use
  azureClient,       \* FALSE: no AzureDevOpsClient yet, TRUE: constructed
  now,               \* Date.now()
  sharedCredential,  \* 0: null, n: the n-th InteractiveBrowserCredential made
  cachedToken,       \* Null or [k |-> "tok", v |-> [token, expiresOn]]
  tokenPromise,      \* 0: null, else the index of a promise in flights
  flights,           \* the promises made by the token request at lines 45-75
  axiosInstance,     \* this.axiosInstance: 0 (null) or an index in instances
  initialized,       \* this.initialized
  instances,         \* the axios instances created: their Authorization header
  pc,                \* where each dispatch is
  tool,              \* the tool name of each dispatch
  ip,                \* the step of the backend operation a dispatch is at
  aw,                \* what each dispatch awaits
  cur,               \* the client the innermost getClient() returned
  held,              \* the client an outer frame holds (createBranch)
  gc,                \* getClient()'s own local, client
  ids,               \* the ids argument / local of getWorkItems, queryWorkItems
  got,               \* history: the status of the last HTTP response this
                     \* invocation got, and the references WIQL answered
  batch,             \* history: the ids of the batch requests it has issued
  sent,              \* history: requests this invocation has issued
  asked,             \* history: token requests this invocation has started
  outcome,           \* the handler's result, once it has one
  nStarted,          \* tool invocations started so far
  wire,              \* history: the outbound requests issued
  cause,             \* history: why a dispatch failed
  MCP_API_KEY,       \* process.env.MCP_API_KEY, fixed at startup
  request,           \* the headers and query of the HTTP request a dispatch
                     \* came with, until the handler has read its body
  rpc                \* the JSON-RPC method and id of that request

credVars == <<sharedCredential, cachedToken, tokenPromise, flights>>
clientVars == <<axiosInstance, initialized, instances>>
procVars == <<pc, tool, ip, aw, cur, held, gc, ids, got, batch, sent, asked,
              outcome, cause>>
httpVars == <<MCP_API_KEY, request, rpc>>
vars == <<USE_PAT, adapter, AZURE_DEVOPS_ORG_URL, workload, azureClient, now,
          sharedCredential, cachedToken, tokenPromise,
          flights, axiosInstance, initialized, instances, pc, tool, ip, aw,
          cur, held, gc, ids, got, batch, sent, asked, outcome, nStarted, wire,
          cause, MCP_API_KEY, request, rpc>>

\* ------------------------------------------------------ authorization
\* process.env.AZURE_DEVOPS_PAT
PatSecret == [kind |-> "pat", id |-> 0]
\* the token string of the n-th upstream answer
AadToken(n) == [kind |-> "aad", id |-> n]

\* Buffer.from(`:${pat}`).toString('base64'), then `Basic ${base64Pat}`
BasicHeader(secret) == [scheme |-> "Basic", enc |-> "base64(:x)", cred |-> secret]
\* `Bearer ${token}`
BearerHeader(token) == [scheme |-> "Bearer", enc |-> "x", cred |-> token]

getAuthHeader == BasicHeader(PatSecret)

\* ------------------------------------------------------------- values
Ready(v) == [k |-> "ready", v |-> v]         \* awaiting a settled value
OnPromise(p) == [k |-> "promise", v |-> [kind |-> "promise", id |-> p]]
OnHttp == [k |-> "http", v |-> Null]         \* awaiting an HTTP response
NoAwait == [k |-> "none", v |-> Null]
NoClient == [kind |-> "client", id |-> 0]
Client(i) == [kind |-> "client", id |-> i]
NoResponse == [status |-> 0, present |-> FALSE, refs |-> <<>>]
NoOutcome == [how |-> "none", status |-> 0, isError |-> FALSE, code |-> 0,
              text |-> <<>>]

\* A string is a sequence of pieces.  What headers.get() and
\* searchParams.get() answer for a name the request does not have.
Absent == <<"(null)">>
NoRequest == [route |-> "", xApiKey |-> Absent, authorization |-> Absent,
              code |-> Absent, key |-> Absent]
NullId == "null"
NoRpc == [method |-> "", id |-> NullId]

\* The module-level and client-object state a step reads and writes.
Shared ==
  [sharedCredential |-> sharedCredential, cachedToken |-> cachedToken,
   tokenPromise |-> tokenPromise, flights |-> flights,
   axiosInstance |-> axiosInstance, initialized |-> initialized,
   instances |-> instances, wire |-> wire]

\* The frame of dispatch d.
Local(d) ==
  [pc |-> pc[d], tool |-> tool[d], ip |-> ip[d], aw |-> aw[d], cur |-> cur[d],
   held |-> held[d], gc |-> gc[d], ids |-> ids[d], got |-> got[d],
   batch |-> batch[d], sent |-> sent[d], asked |-> asked[d],
   outcome |-> outcome[d], cause |-> cause[d]]

\* ------------------------------------------------ credential provider
\* cachedToken && cachedToken.expiresOn > new Date(Date.now() + 60000)
CacheValid(s) ==
  /\ s.cachedToken # Null
  /\ s.cachedToken.expiresOn > now + RefreshMarginMs

\* How the synchronous start of a token request may go.
SyncOutcomes == {"suspends", "ctorThrows", "getTokenThrows"}

\* The ways the next call of getAccessToken() may go: only a call that starts
\* a token request has more than one.
SyncChoices ==
  IF ~USE_PAT /\ tokenPromise = 0 /\ ~CacheValid(Shared)
  THEN IF sharedCredential # 0 THEN SyncOutcomes \ {"ctorThrows"} ELSE SyncOutcomes
  ELSE {"suspends"}

\* A request that makes a credential object of its own every time.
initCredential_Always(s) == s.sharedCredential + 1

\* if (!sharedCredential) sharedCredential = new InteractiveBrowserCredential
\* (lines 48-54): the credential the token request goes on with.
initCredential(s) ==
  IF s.sharedCredential = 0 THEN 1 ELSE s.sharedCredential

\* The async function at lines 45-75, up to its first suspension: the flight
\* (promise) it returns, and the module state it leaves.  A throw before the
\* await runs the finally block before the caller has the promise.
tokenRequest(s, c) ==
  IF s.sharedCredential = 0 /\ c = "ctorThrows"
  THEN [sharedCredential |-> 0,
        tokenPromise |-> 0,
        flight |-> [state |-> "rejected", at |-> "ctor", err |-> "ctor error",
                    token |-> Null]]
  ELSE IF c = "getTokenThrows"
  THEN [sharedCredential |-> initCredential(s),
        tokenPromise |-> 0,
        flight |-> [state |-> "rejected", at |-> "call", err |-> "getToken error",
                    token |-> Null]]
  ELSE [sharedCredential |-> initCredential(s),
        tokenPromise |-> s.tokenPromise,
        flight |-> [state |-> "pending", at |-> "await", err |-> "",
                    token |-> Null]]

\* getAccessToken() without the check of tokenPromise at line 39: every call
\* that misses the cache starts a token request.
getAccessToken_NoJoin(s, c) ==
  IF USE_PAT
  THEN [s |-> s, aw |-> Ready(PatSecret), started |-> FALSE]
  ELSE IF CacheValid(s)
  THEN [s |-> s, aw |-> Ready(s.cachedToken.token), started |-> FALSE]
  ELSE LET r == tokenRequest(s, c)
           p == Len(s.flights) + 1
       IN [s |-> [s EXCEPT !.sharedCredential = r.sharedCredential,
                           !.flights = Append(s.flights, r.flight),
                           !.tokenPromise = p],
           aw |-> OnPromise(p), started |-> TRUE]

\* getAccessToken(), called at time now: the state it leaves and what its
\* caller awaits.
getAccessToken(s, c) ==
  IF USE_PAT
  THEN [s |-> s, aw |-> Ready(PatSecret), started |-> FALSE]
  ELSE IF CacheValid(s)
  THEN [s |-> s, aw |-> Ready(s.cachedToken.token), started |-> FALSE]
  ELSE IF s.tokenPromise # 0
  THEN [s |-> s, aw |-> OnPromise(s.tokenPromise), started |-> FALSE]
  ELSE LET r == tokenRequest(s, c)
           p == Len(s.flights) + 1
       IN [s |-> [s EXCEPT !.sharedCredential = r.sharedCredential,
                           !.flights = Append(s.flights, r.flight),
                           !.tokenPromise = p],
           aw |-> OnPromise(p), started |-> TRUE]

\* await getAccessToken(), from frame l, which goes on at label k.
awaitToken(s, l, c, k) ==
  LET r == getAccessToken(s, c)
  IN [s |-> r.s,
      l |-> [l EXCEPT !.pc = k, !.aw = r.aw,
                      !.asked = l.asked + (IF r.started THEN 1 ELSE 0)]]

\* What sharedCredential.getToken() may answer once it has suspended.
Answers ==
  [kind : {"token"}, life : Lifetimes] \cup
  [kind : {"null", "rejects"}, life : {0}]

\* cachedToken = { token, expiresOn } at lines 63-68
storeToken(p, a) ==
  [token |-> AadToken(p),
   expiresOn |-> IF a.life # 0 THEN now + a.life ELSE now + DefaultLifetimeMs]

\* A token request that empties the cache when its exchange fails.
tokenRequestEnds_ClearsCache(s, p, a) ==
  IF a.kind = "token"
  THEN [s EXCEPT !.cachedToken = storeToken(p, a),
                 !.tokenPromise = 0,
                 !.flights[p] = [state |-> "fulfilled", at |-> "await",
                                 err |-> "", token |-> AadToken(p)]]
  ELSE [s EXCEPT !.cachedToken = Null,
                 !.tokenPromise = 0,
                 !.flights[p] = [state |-> "rejected", at |-> "await",
                                 err |-> "getToken error", token |-> Null]]

\* The rest of the async function, when getToken() has answered a.
tokenRequestEnds(s, p, a) ==
  IF a.kind = "token"
  THEN LET t == storeToken(p, a)
       IN [s EXCEPT !.cachedToken = t,
                    !.tokenPromise = 0,
                    !.flights[p] = [state |-> "fulfilled", at |-> "await",
                                    err |-> "", token |-> t.token]]
  ELSE [s EXCEPT !.tokenPromise = 0,
                 !.flights[p] =
                   [state |-> "rejected", at |-> "await",
                    err |-> IF a.kind = "null"
                            THEN "Failed to acquire access token"
                            ELSE "getToken error",
                    token |-> Null]]

\* ------------------------------------------------------- tool registry
\* The names the switch of index.ts (2286-3084) has a case for.
StdioCases ==
  {"list_projects", "list_project_teams", "list_team_members",
   "query_work_items", "get_work_items_by_ids", "create_work_item",
   "update_work_item", "list_work_item_types", "list_repositories",
   "list_branches", "list_commits", "get_file_content", "list_pull_requests",
   "get_pull_request", "create_pull_request", "get_builds",
   "list_build_definitions", "list_pipelines", "list_iterations",
   "list_team_iterations", "list_areas", "search_code", "search_work_items",
   "get_identity_ids", "get_current_user", "list_boards", "list_queries",
   "get_work_item_revisions", "get_work_item_comments", "list_wikis",
   "get_wiki_page", "list_test_plans", "get_repository", "get_branch",
   "create_branch", "search_commits", "update_work_items_batch",
   "add_child_work_items", "link_work_items", "add_work_item_comment",
   "get_my_work_items", "get_work_items_for_iteration", "list_backlogs",
   "list_backlog_work_items", "update_pull_request",
   "update_pull_request_reviewers", "list_pull_request_threads",
   "create_pull_request_thread", "reply_to_pull_request_comment",
   "get_build_status", "get_build_log", "run_pipeline", "get_pipeline_run",
   "list_pipeline_runs", "create_iteration", "create_iterations",
   "get_team_capacity", "update_team_capacity", "get_wiki", "list_wiki_pages",
   "create_or_update_wiki_page", "create_test_plan", "list_test_suites",
   "create_test_suite", "list_test_cases", "create_test_case", "search_wiki",
   "get_advanced_security_alerts", "get_advanced_security_alert_details"}

\* The names the switch of executeToolInternal of functions/mcp.ts has a case
\* for.
McpCases ==
  {"list_projects", "list_project_teams", "list_team_members",
   "query_work_items", "get_work_items_by_ids", "create_work_item",
   "update_work_item", "update_work_items_batch", "add_child_work_items",
   "link_work_items", "unlink_work_item", "add_artifact_link",
   "link_work_item_to_pull_request", "add_work_item_comment",
   "get_work_item_comments", "get_work_item_revisions",
   "list_work_item_types", "get_my_work_items",
   "get_work_items_for_iteration", "list_backlogs", "list_backlog_work_items",
   "get_query_results", "list_repositories", "get_repository",
   "list_branches", "get_my_branches", "get_branch", "create_branch",
   "list_commits", "search_commits", "get_file_content", "list_pull_requests",
   "list_pull_requests_by_commits", "get_pull_request", "create_pull_request",
   "update_pull_request", "update_pull_request_reviewers",
   "list_pull_request_threads", "list_pull_request_thread_comments",
   "create_pull_request_thread", "update_pull_request_thread",
   "reply_to_pull_request_comment", "get_builds", "get_build_status",
   "get_build_log", "get_build_log_by_id", "get_build_changes",
   "list_build_definitions", "get_build_definition_revisions",
   "list_pipelines", "create_pipeline", "run_pipeline", "get_pipeline_run",
   "list_pipeline_runs", "update_build_stage", "list_iterations",
   "create_iterations", "list_team_iterations", "assign_iterations",
   "get_iteration_capacities", "get_team_capacity", "update_team_capacity",
   "list_areas", "search_code", "search_work_items", "search_wiki",
   "get_identity_ids", "get_current_user", "list_boards", "list_queries",
   "list_wikis", "get_wiki", "list_wiki_pages", "get_wiki_page",
   "create_or_update_wiki_page", "list_test_plans", "create_test_plan",
   "list_test_suites", "create_test_suite", "add_test_cases_to_suite",
   "list_test_cases", "create_test_case", "update_test_case_steps",
   "get_test_results_from_build", "get_advanced_security_alerts",
   "get_advanced_security_alert_details"}

\* The names the dispatcher of an adapter accepts.
Cases(a) == IF a = "stdio" THEN StdioCases ELSE McpCases

\* One entry of a tool listing: inputSchema.properties as the set of its keys.
ToolDef(name, description, properties, required) ==
  [name |-> name, description |-> description, properties |-> properties,
   required |-> required]

\* const tools of index.ts (1179-2279), the answer to tools/list.
tools ==
  {ToolDef("list_projects",
      "List all projects in the Azure DevOps organization",
      {},
      {}),
   ToolDef("list_project_teams",
      "List teams for a project",
      {"project", "mine", "top"},
      {"project"}),
   ToolDef("list_team_members",
      "List members of a team",
      {"project", "team"},
      {"project", "team"}),
   ToolDef("query_work_items",
      "Query work items using WIQL (Work Item Query Language)",
      {"project", "wiql"},
      {"project", "wiql"}),
   ToolDef("get_work_items_by_ids",
      "Get work items by their IDs",
      {"project", "ids"},
      {"project", "ids"}),
   ToolDef("create_work_item",
      "Create a new work item",
      {"project", "workItemType", "title", "description", "additionalFields"},
      {"project", "workItemType", "title"}),
   ToolDef("update_work_item",
      "Update fields of an existing work item",
      {"project", "id", "fields", "comment"},
      {"project", "id", "fields"}),
   ToolDef("list_work_item_types",
      "List work item types available in a project",
      {"project"},
      {"project"}),
   ToolDef("list_repositories",
      "List Git repositories in a project",
      {"project"},
      {"project"}),
   ToolDef("list_branches",
      "List branches in a repository",
      {"project", "repositoryId"},
      {"project", "repositoryId"}),
   ToolDef("list_commits",
      "List commits in a repository",
      {"project", "repositoryId", "top"},
      {"project", "repositoryId"}),
   ToolDef("get_file_content",
      "Get content of a file in a repository",
      {"project", "repositoryId", "path"},
      {"project", "repositoryId", "path"}),
   ToolDef("list_pull_requests",
      "List pull requests in a project",
      {"project", "repositoryId", "status", "top"},
      {"project"}),
   ToolDef("get_pull_request",
      "Get details of a specific pull request",
      {"project", "repositoryId", "pullRequestId"},
      {"project", "repositoryId", "pullRequestId"}),
   ToolDef("create_pull_request",
      "Create a new pull request",
      {"project", "repositoryId", "sourceBranch", "targetBranch", "title", "description"},
      {"project", "repositoryId", "sourceBranch", "targetBranch", "title"}),
   ToolDef("get_builds",
      "Get recent builds for a project",
      {"project", "definitionId", "top"},
      {"project"}),
   ToolDef("list_build_definitions",
      "List build definitions (pipelines) for a project",
      {"project"},
      {"project"}),
   ToolDef("list_pipelines",
      "List YAML pipelines in a project",
      {"project"},
      {"project"}),
   ToolDef("list_iterations",
      "List iterations (sprints) for a project",
      {"project"},
      {"project"}),
   ToolDef("list_team_iterations",
      "List iterations for a team",
      {"project", "team"},
      {"project", "team"}),
   ToolDef("list_areas",
      "List areas (classification nodes) in a project",
      {"project"},
      {"project"}),
   ToolDef("search_code",
      "Search for code across repositories",
      {"searchText", "project", "repository", "top"},
      {"searchText"}),
   ToolDef("search_work_items",
      "Search for work items using text search",
      {"searchText", "project", "top"},
      {"searchText"}),
   ToolDef("get_identity_ids",
      "Search for Azure DevOps identity IDs",
      {"searchFilter"},
      {"searchFilter"}),
   ToolDef("get_current_user",
      "Get the currently authenticated user details",
      {},
      {}),
   ToolDef("list_boards",
      "List boards for a team",
      {"project", "team"},
      {"project", "team"}),
   ToolDef("list_queries",
      "List saved work item queries",
      {"project"},
      {"project"}),
   ToolDef("get_work_item_revisions",
      "Get revision history of a work item",
      {"project", "id"},
      {"project", "id"}),
   ToolDef("get_work_item_comments",
      "Get comments for a work item",
      {"project", "id"},
      {"project", "id"}),
   ToolDef("list_wikis",
      "List wikis in a project",
      {"project"},
      {"project"}),
   ToolDef("get_wiki_page",
      "Get content of a wiki page",
      {"project", "wikiIdentifier", "path"},
      {"project", "wikiIdentifier"}),
   ToolDef("list_test_plans",
      "List test plans in a project",
      {"project"},
      {"project"}),
   ToolDef("get_repository",
      "Get details of a specific repository",
      {"project", "repositoryId"},
      {"project", "repositoryId"}),
   ToolDef("get_branch",
      "Get details of a specific branch",
      {"project", "repositoryId", "branchName"},
      {"project", "repositoryId", "branchName"}),
   ToolDef("create_branch",
      "Create a new branch in a repository",
      {"project", "repositoryId", "name", "sourceBranch"},
      {"project", "repositoryId", "name", "sourceBranch"}),
   ToolDef("search_commits",
      "Search commits with criteria",
      {"project", "repositoryId", "searchCriteria", "top"},
      {"project", "repositoryId", "searchCriteria"}),
   ToolDef("update_work_items_batch",
      "Update multiple work items in a batch",
      {"project", "updates"},
      {"project", "updates"}),
   ToolDef("add_child_work_items",
      "Add child work items to a parent",
      {"project", "parentId", "childIds"},
      {"project", "parentId", "childIds"}),
   ToolDef("link_work_items",
      "Link two work items together",
      {"project", "sourceId", "targetId", "linkType"},
      {"project", "sourceId", "targetId"}),
   ToolDef("add_work_item_comment",
      "Add a comment to a work item",
      {"project", "workItemId", "text"},
      {"project", "workItemId", "text"}),
   ToolDef("get_my_work_items",
      "Get work items assigned to or created by current user",
      {"project", "assignedToMe"},
      {"project"}),
   ToolDef("get_work_items_for_iteration",
      "Get work items for a specific iteration",
      {"project", "iterationPath"},
      {"project", "iterationPath"}),
   ToolDef("list_backlogs",
      "List backlogs for a team",
      {"project", "team"},
      {"project", "team"}),
   ToolDef("list_backlog_work_items",
      "List work items in a backlog",
      {"project", "team", "backlogId"},
      {"project", "team", "backlogId"}),
   ToolDef("update_pull_request",
      "Update a pull request",
      {"project", "repositoryId", "pullRequestId", "updates"},
      {"project", "repositoryId", "pullRequestId", "updates"}),
   ToolDef("update_pull_request_reviewers",
      "Update reviewers for a pull request",
      {"project", "repositoryId", "pullRequestId", "reviewers"},
      {"project", "repositoryId", "pullRequestId", "reviewers"}),
   ToolDef("list_pull_request_threads",
      "List threads in a pull request",
      {"project", "repositoryId", "pullRequestId"},
      {"project", "repositoryId", "pullRequestId"}),
   ToolDef("create_pull_request_thread",
      "Create a new thread in a pull request",
      {"project", "repositoryId", "pullRequestId", "thread"},
      {"project", "repositoryId", "pullRequestId", "thread"}),
   ToolDef("reply_to_pull_request_comment",
      "Reply to a pull request comment",
      {"project", "repositoryId", "pullRequestId", "threadId", "comment"},
      {"project", "repositoryId", "pullRequestId", "threadId", "comment"}),
   ToolDef("get_build_status",
      "Get status of a specific build",
      {"project", "buildId"},
      {"project", "buildId"}),
   ToolDef("get_build_log",
      "Get logs for a build",
      {"project", "buildId"},
      {"project", "buildId"}),
   ToolDef("run_pipeline",
      "Trigger a pipeline run",
      {"project", "pipelineId", "parameters"},
      {"project", "pipelineId"}),
   ToolDef("get_pipeline_run",
      "Get details of a pipeline run",
      {"project", "pipelineId", "runId"},
      {"project", "pipelineId", "runId"}),
   ToolDef("list_pipeline_runs",
      "List runs for a pipeline",
      {"project", "pipelineId", "top"},
      {"project", "pipelineId"}),
   ToolDef("create_iteration",
      "Create a single iteration (sprint) with optional start and end dates",
      {"project", "name", "startDate", "finishDate", "parentPath"},
      {"project", "name"}),
   ToolDef("create_iterations",
      "Create multiple iterations (sprints) in batch. Each iteration can have name, startDate, finishDate, and optional parentPath.",
      {"project", "iterations"},
      {"project", "iterations"}),
   ToolDef("get_team_capacity",
      "Get team capacity for an iteration",
      {"project", "team", "iterationId"},
      {"project", "team", "iterationId"}),
   ToolDef("update_team_capacity",
      "Update team capacity for an iteration",
      {"project", "team", "iterationId", "capacities"},
      {"project", "team", "iterationId", "capacities"}),
   ToolDef("get_wiki",
      "Get details of a specific wiki",
      {"project", "wikiIdentifier"},
      {"project", "wikiIdentifier"}),
   ToolDef("list_wiki_pages",
      "List pages in a wiki",
      {"project", "wikiIdentifier", "path"},
      {"project", "wikiIdentifier"}),
   ToolDef("create_or_update_wiki_page",
      "Create or update a wiki page",
      {"project", "wikiIdentifier", "path", "content", "comment"},
      {"project", "wikiIdentifier", "path", "content"}),
   ToolDef("create_test_plan",
      "Create a new test plan",
      {"project", "name", "description"},
      {"project", "name"}),
   ToolDef("list_test_suites",
      "List test suites in a test plan",
      {"project", "planId"},
      {"project", "planId"}),
   ToolDef("create_test_suite",
      "Create a test suite in a test plan",
      {"project", "planId", "name", "suiteType"},
      {"project", "planId", "name"}),
   ToolDef("list_test_cases",
      "List test cases in a test suite",
      {"project", "planId", "suiteId"},
      {"project", "planId", "suiteId"}),
   ToolDef("create_test_case",
      "Create a new test case",
      {"project", "title", "steps"},
      {"project", "title"}),
   ToolDef("search_wiki",
      "Search wiki pages",
      {"searchText", "project", "wikiIdentifier", "top"},
      {"searchText"}),
   ToolDef("get_advanced_security_alerts",
      "Get advanced security alerts for a repository",
      {"project", "repositoryId", "severity", "state", "top"},
      {"project", "repositoryId"}),
   ToolDef("get_advanced_security_alert_details",
      "Get details of a specific security alert",
      {"project", "repositoryId", "alertId"},
      {"project", "repositoryId", "alertId"})}

\* getToolDefinitions() of functions/mcp.ts (204-296).
McpToolDefinitions ==
  {ToolDef("list_projects",
      "List all projects in the Azure DevOps organization",
      {},
      {}),
   ToolDef("list_project_teams",
      "List teams for a project",
      {"project"},
      {"project"}),
   ToolDef("list_team_members",
      "List members of a team",
      {"project", "team"},
      {"project", "team"}),
   ToolDef("query_work_items",
      "Query work items using WIQL",
      {"project", "wiql"},
      {"project", "wiql"}),
   ToolDef("get_work_items_by_ids",
      "Get work items by their IDs",
      {"project", "ids"},
      {"project", "ids"}),
   ToolDef("create_work_item",
      "Create a new work item",
      {"project", "workItemType", "title", "description", "additionalFields"},
      {"project", "workItemType", "title"}),
   ToolDef("update_work_item",
      "Update an existing work item",
      {"project", "id", "fields", "comment"},
      {"project", "id", "fields"}),
   ToolDef("update_work_items_batch",
      "Update multiple work items in batch",
      {"project", "updates"},
      {"project", "updates"}),
   ToolDef("add_child_work_items",
      "Add child work items to a parent",
      {"project", "parentId", "childIds"},
      {"project", "parentId", "childIds"}),
   ToolDef("link_work_items",
      "Link two work items",
      {"project", "sourceId", "targetId", "linkType"},
      {"project", "sourceId", "targetId"}),
   ToolDef("unlink_work_item",
      "Remove a link from a work item",
      {"project", "workItemId", "relationId"},
      {"project", "workItemId", "relationId"}),
   ToolDef("add_work_item_comment",
      "Add a comment to a work item",
      {"project", "workItemId", "text"},
      {"project", "workItemId", "text"}),
   ToolDef("get_work_item_comments",
      "Get comments for a work item",
      {"project", "id"},
      {"project", "id"}),
   ToolDef("get_work_item_revisions",
      "Get revision history for a work item",
      {"project", "id"},
      {"project", "id"}),
   ToolDef("list_work_item_types",
      "List available work item types",
      {"project"},
      {"project"}),
   ToolDef("get_my_work_items",
      "Get work items assigned to or created by current user",
      {"project", "assignedToMe"},
      {"project"}),
   ToolDef("get_work_items_for_iteration",
      "Get work items for a specific iteration",
      {"project", "iterationPath"},
      {"project", "iterationPath"}),
   ToolDef("list_backlogs",
      "List backlogs for a team",
      {"project", "team"},
      {"project", "team"}),
   ToolDef("list_backlog_work_items",
      "List work items in a backlog",
      {"project", "team", "backlogId"},
      {"project", "team", "backlogId"}),
   ToolDef("get_query_results",
      "Execute a saved query",
      {"project", "queryId"},
      {"project", "queryId"}),
   ToolDef("list_repositories",
      "List Git repositories in a project",
      {"project"},
      {"project"}),
   ToolDef("get_repository",
      "Get repository details",
      {"project", "repositoryId"},
      {"project", "repositoryId"}),
   ToolDef("list_branches",
      "List branches in a repository",
      {"project", "repositoryId"},
      {"project", "repositoryId"}),
   ToolDef("get_branch",
      "Get branch details",
      {"project", "repositoryId", "branchName"},
      {"project", "repositoryId", "branchName"}),
   ToolDef("create_branch",
      "Create a new branch",
      {"project", "repositoryId", "name", "sourceBranch"},
      {"project", "repositoryId", "name", "sourceBranch"}),
   ToolDef("list_commits",
      "List commits in a repository",
      {"project", "repositoryId", "top"},
      {"project", "repositoryId"}),
   ToolDef("search_commits",
      "Search commits with criteria",
      {"project", "repositoryId", "searchCriteria", "top"},
      {"project", "repositoryId", "searchCriteria"}),
   ToolDef("get_file_content",
      "Get file content from repository",
      {"project", "repositoryId", "path"},
      {"project", "repositoryId", "path"}),
   ToolDef("list_pull_requests",
      "List pull requests",
      {"project", "repositoryId", "status", "top"},
      {"project"}),
   ToolDef("get_pull_request",
      "Get pull request details",
      {"project", "repositoryId", "pullRequestId"},
      {"project", "repositoryId", "pullRequestId"}),
   ToolDef("create_pull_request",
      "Create a new pull request",
      {"project", "repositoryId", "sourceBranch", "targetBranch", "title", "description"},
      {"project", "repositoryId", "sourceBranch", "targetBranch", "title"}),
   ToolDef("update_pull_request",
      "Update a pull request",
      {"project", "repositoryId", "pullRequestId", "updates"},
      {"project", "repositoryId", "pullRequestId", "updates"}),
   ToolDef("update_pull_request_reviewers",
      "Update PR reviewers",
      {"project", "repositoryId", "pullRequestId", "reviewers"},
      {"project", "repositoryId", "pullRequestId", "reviewers"}),
   ToolDef("list_pull_request_threads",
      "List PR comment threads",
      {"project", "repositoryId", "pullRequestId"},
      {"project", "repositoryId", "pullRequestId"}),
   ToolDef("create_pull_request_thread",
      "Create a comment thread on PR",
      {"project", "repositoryId", "pullRequestId", "thread"},
      {"project", "repositoryId", "pullRequestId", "thread"}),
   ToolDef("reply_to_pull_request_comment",
      "Reply to a PR comment",
      {"project", "repositoryId", "pullRequestId", "threadId", "comment"},
      {"project", "repositoryId", "pullRequestId", "threadId", "comment"}),
   ToolDef("get_builds",
      "List builds",
      {"project", "definitionId", "top"},
      {"project"}),
   ToolDef("get_build_status",
      "Get build status",
      {"project", "buildId"},
      {"project", "buildId"}),
   ToolDef("get_build_log",
      "Get build logs",
      {"project", "buildId"},
      {"project", "buildId"}),
   ToolDef("list_build_definitions",
      "List build definitions",
      {"project"},
      {"project"}),
   ToolDef("list_pipelines",
      "List pipelines",
      {"project"},
      {"project"}),
   ToolDef("run_pipeline",
      "Trigger a pipeline run",
      {"project", "pipelineId", "parameters"},
      {"project", "pipelineId"}),
   ToolDef("get_pipeline_run",
      "Get pipeline run details",
      {"project", "pipelineId", "runId"},
      {"project", "pipelineId", "runId"}),
   ToolDef("list_pipeline_runs",
      "List pipeline runs",
      {"project", "pipelineId", "top"},
      {"project", "pipelineId"}),
   ToolDef("list_iterations",
      "List project iterations",
      {"project"},
      {"project"}),
   ToolDef("list_team_iterations",
      "List team iterations",
      {"project", "team"},
      {"project", "team"}),
   ToolDef("list_areas",
      "List project areas",
      {"project"},
      {"project"}),
   ToolDef("get_team_capacity",
      "Get team capacity for an iteration",
      {"project", "team", "iterationId"},
      {"project", "team", "iterationId"}),
   ToolDef("search_code",
      "Search code across repositories",
      {"searchText", "project", "repository", "top"},
      {"searchText"}),
   ToolDef("search_work_items",
      "Search work items",
      {"searchText", "project", "top"},
      {"searchText"}),
   ToolDef("search_wiki",
      "Search wiki pages",
      {"searchText", "project", "wikiIdentifier", "top"},
      {"searchText"}),
   ToolDef("get_identity_ids",
      "Search for user identities",
      {"searchFilter"},
      {"searchFilter"}),
   ToolDef("get_current_user",
      "Get current authenticated user info",
      {},
      {}),
   ToolDef("list_boards",
      "List team boards",
      {"project", "team"},
      {"project", "team"}),
   ToolDef("list_queries",
      "List saved queries",
      {"project"},
      {"project"}),
   ToolDef("list_wikis",
      "List wikis in a project",
      {"project"},
      {"project"}),
   ToolDef("get_wiki",
      "Get wiki details",
      {"project", "wikiIdentifier"},
      {"project", "wikiIdentifier"}),
   ToolDef("list_wiki_pages",
      "List wiki pages",
      {"project", "wikiIdentifier", "path"},
      {"project", "wikiIdentifier"}),
   ToolDef("get_wiki_page",
      "Get wiki page content",
      {"project", "wikiIdentifier", "path"},
      {"project", "wikiIdentifier"}),
   ToolDef("create_or_update_wiki_page",
      "Create or update a wiki page",
      {"project", "wikiIdentifier", "path", "content", "comment"},
      {"project", "wikiIdentifier", "path", "content"}),
   ToolDef("list_test_plans",
      "List test plans",
      {"project"},
      {"project"}),
   ToolDef("create_test_plan",
      "Create a test plan",
      {"project", "name", "description"},
      {"project", "name"}),
   ToolDef("list_test_suites",
      "List test suites in a plan",
      {"project", "planId"},
      {"project", "planId"}),
   ToolDef("list_test_cases",
      "List test cases in a suite",
      {"project", "planId", "suiteId"},
      {"project", "planId", "suiteId"}),
   ToolDef("get_advanced_security_alerts",
      "Get security alerts for a repository",
      {"project", "repositoryId", "severity", "state", "top"},
      {"project", "repositoryId"}),
   ToolDef("get_advanced_security_alert_details",
      "Get details of a security alert",
      {"project", "repositoryId", "alertId"},
      {"project", "repositoryId", "alertId"})}

\* The tool listing of an adapter.
getToolDefinitions(a) == IF a = "stdio" THEN tools ELSE McpToolDefinitions

\* The cases whose operation this model follows (get_build_changes is a case
\* of functions/mcp.ts only, create_iteration of index.ts only), and a name no
\* switch has a case for.
Registry ==
  {"list_projects", "create_branch", "get_identity_ids",
   "list_team_members", "list_boards", "get_advanced_security_alerts",
   "list_backlogs", "list_backlog_work_items",
   "get_pull_request", "get_advanced_security_alert_details",
   "query_work_items", "get_work_items_by_ids", "get_build_changes",
   "create_iteration"}
Tools == Registry \cup {"not_a_real_tool"}

\* What the operation of a tool does with a 404: return [], return null, or
\* let the error go (no catch around its request).
On404(t) ==
  CASE t \in {"list_team_members", "list_boards",
              "get_advanced_security_alerts"} -> "[]"
    [] t = "get_advanced_security_alert_details" -> "null"
    [] OTHER -> "throw"

\* The ids argument a request may come with.
ArgIds(t) == IF t = "get_work_items_by_ids" THEN {<<>>, <<7>>} ELSE {<<>>}

\* The tool names the requests of one behaviour are drawn from.
Workloads ==
  {{"list_projects", "create_branch", "get_identity_ids", "not_a_real_tool"},
   {"list_team_members", "list_boards", "get_advanced_security_alerts",
    "list_backlogs"},
   {"list_backlog_work_items", "get_pull_request",
    "get_advanced_security_alert_details"},
   {"query_work_items", "get_work_items_by_ids"},
   {"get_build_changes", "create_iteration"}}

Step(i, slot) == [i |-> i, slot |-> slot]

\* The backend operation a tool is bound to, as the awaits it goes through:
\* getProjects; createBranch (which holds its client across getBranchObjectId
\* -> getBranchByName); searchIdentities; queryWorkItems (which ends in
\* getWorkItems); getWorkItems; and the operations of one getClient and one
\* request.
Program(t) ==
  CASE t = "list_projects" ->
         <<Step("getClient", "cur"), Step("request", "cur")>>
    [] t = "create_branch" ->
         <<Step("getClient", "held"), Step("getClient", "cur"),
           Step("request", "cur"), Step("request", "held")>>
    [] t = "get_identity_ids" ->
         <<Step("getAccessToken", "cur"), Step("requestDirect", "cur")>>
    [] t = "query_work_items" ->
         <<Step("getClient", "cur"), Step("wiql", "cur"), Step("ifNoIds", "cur"),
           Step("getClient", "cur"), Step("batch", "cur")>>
    [] t = "get_work_items_by_ids" ->
         <<Step("ifNoIds", "cur"), Step("getClient", "cur"),
           Step("batch", "cur")>>
    [] t = "create_iteration" -> <<>>
    [] t \in Registry ->
         <<Step("getClient", "cur"), Step("request", "cur")>>
    [] OTHER -> <<>>

\* --------------------------------------------------- transport adapters
\* JSON.stringify(result, null, 2)
Json(v) == <<"json", v>>
JsonResult == Json("result")

\* The handler's return for a known tool whose operation returned v.
SuccessOf(v) ==
  IF adapter = "stdio"
  THEN [how |-> "returned", status |-> 0, isError |-> FALSE, code |-> 0,
        text |-> Json(v)]
  ELSE [how |-> "returned", status |-> 200, isError |-> FALSE, code |-> 0,
        text |-> Json(v)]

Success == SuccessOf("result")

\* The catch block of the handler, for an error with message msg.
Caught(msg) ==
  IF adapter = "stdio"
  THEN [how |-> "returned", status |-> 0, isError |-> TRUE, code |-> 0,
        text |-> <<"Error: ">> \o msg]
  ELSE [how |-> "returned", status |-> 500, isError |-> FALSE, code |-> -32603,
        text |-> msg]

UnknownToolMessage(name) == <<"Unknown tool: ", name>>

\* The default branch of the switch.
UnknownTool(name) ==
  IF adapter = "stdio"
  THEN [how |-> "returned", status |-> 0, isError |-> TRUE, code |-> 0,
        text |-> UnknownToolMessage(name)]
  ELSE Caught(UnknownToolMessage(name))

\* An error raised inside the operation reaches the handler.
Throw(s, l, why, msg) ==
  [s |-> s,
   l |-> [l EXCEPT !.pc = "done", !.aw = NoAwait, !.outcome = Caught(msg),
                   !.cause = why]]

\* --------------------------------------------------------- backend client
OrgUrls == {"https://dev.azure.com/org", "https://example.com/org", ""}

\* The constructor of AzureDevOpsClient: the error it throws, "" if none.
constructorError(orgUrl) ==
  IF orgUrl = ""
  THEN "AZURE_DEVOPS_ORG_URL is not defined in environment variables"
  ELSE IF orgUrl # "https://dev.azure.com/org"
  THEN "Invalid AZURE_DEVOPS_ORG_URL format. Expected https://dev.azure.com/{organization}"
  ELSE ""

\* axios.create({ baseURL, headers: { Authorization: authHeader, ... } })
axiosCreate(s, authHeader) ==
  [s EXCEPT !.instances = Append(s.instances, authHeader),
            !.axiosInstance = Len(s.instances) + 1,
            !.initialized = TRUE]

\* client.get / client.post: the request goes out with the instance's header.
\* stale: the header carries a token that is not the one the cache holds.
Sent(s, header) ==
  [scheme |-> header.scheme, enc |-> header.enc, kind |-> header.cred.kind,
   stale |-> header.cred.kind = "aad" /\ s.cachedToken # Null
             /\ header.cred # s.cachedToken.token]

issue(s, l, header) ==
  [s |-> [s EXCEPT !.wire = s.wire \cup {Sent(s, header)}],
   l |-> [l EXCEPT !.pc = "op_http", !.aw = OnHttp, !.sent = l.sent + 1]]

\* The operation returns v and the handler returns it.
finish(s, l, v) ==
  [s |-> s, l |-> [l EXCEPT !.pc = "done", !.aw = NoAwait,
                            !.outcome = SuccessOf(v)]]

\* ensureInitialized(), up to its first await.
ensureInitialized(s, l, c) ==
  IF s.axiosInstance # 0 /\ s.initialized
  THEN [s |-> s,
        l |-> [l EXCEPT !.pc = "gc_init", !.aw = Ready(Client(s.axiosInstance))]]
  ELSE IF USE_PAT
  THEN LET s2 == axiosCreate(s, getAuthHeader)
       IN [s |-> s2,
           l |-> [l EXCEPT !.pc = "gc_init",
                           !.aw = Ready(Client(s2.axiosInstance))]]
  ELSE awaitToken(s, l, c, "ei_token")

\* The client a step of an operation uses.
SlotClient(l, slot) == IF slot = "held" THEN l.held ELSE l.cur

\* An operation that takes every id list for a list with ids in it.
noIds_Never(l) == FALSE

\* ids.length === 0 (line 201); !workItemRefs || workItemRefs.length === 0
\* (line 216): there is no id to fetch.
noIds(l) == l.ids = <<>>

\* The synchronous part of step l.ip of the operation: up to its first await,
\* or to the handler's return when the operation has no step left.
RECURSIVE enter(_, _, _)
enter(s, l, c) ==
  LET prog == Program(l.tool) IN
  IF l.ip > Len(prog)
  THEN finish(s, l, "result")
  ELSE LET ins == prog[l.ip] IN
       IF ins.i = "getClient"
       THEN ensureInitialized(s, l, c)
       ELSE IF ins.i = "getAccessToken"
       THEN awaitToken(s, l, c, "si_token")
       ELSE IF ins.i = "ifNoIds"
       THEN \* if (ids.length === 0) return []
            IF noIds(l)
            THEN finish(s, l, "[]")
            ELSE enter(s, [l EXCEPT !.ip = l.ip + 1], c)
       ELSE IF ins.i = "batch"
       THEN issue(s, [l EXCEPT !.batch = Append(l.batch, l.ids)],
                  s.instances[SlotClient(l, ins.slot).id])
       ELSE issue(s, l, s.instances[SlotClient(l, ins.slot).id])

\* What the await of frame l has settled to.
Settled(s, l) ==
  IF l.aw.k = "ready"
  THEN [ok |-> TRUE, v |-> l.aw.v, err |-> ""]
  ELSE LET f == s.flights[l.aw.v.id]
       IN [ok |-> f.state = "fulfilled", v |-> f.token, err |-> f.err]

\* A caller that answers a failed token request by asking again.
rejected_Retry(s, l, c) == awaitToken(s, l, c, l.pc)

\* A caller whose await of a failed token request never settles.
rejected_Hang(s, l, c) == [s |-> s, l |-> [l EXCEPT !.aw = NoAwait]]

\* The await of frame l throws: getAccessToken() has failed, and nothing
\* between the await and the handler catches.
rejected(s, l, c) == Throw(s, l, "auth", <<Settled(s, l).err>>)

\* The continuation of frame l after its await has settled.
resume(s, l, c) ==
  LET r == Settled(s, l) IN
  IF ~r.ok
  THEN rejected(s, l, c)
  ELSE IF l.pc = "ei_token"
  THEN \* ensureInitialized, lines 168-178
       LET s2 == axiosCreate(s, BearerHeader(r.v))
       IN [s |-> s2,
           l |-> [l EXCEPT !.pc = "gc_init",
                           !.aw = Ready(Client(s2.axiosInstance))]]
  ELSE IF l.pc = "gc_init"
  THEN \* getClient, lines 183-186
       IF USE_PAT
       THEN [s |-> s, l |-> [l EXCEPT !.pc = "op_client", !.gc = r.v,
                                      !.aw = Ready(r.v)]]
       ELSE awaitToken(s, [l EXCEPT !.gc = r.v], c, "gc_token")
  ELSE IF l.pc = "gc_token"
  THEN \* getClient, lines 187-189
       [s |-> [s EXCEPT !.instances[l.gc.id] = BearerHeader(r.v)],
        l |-> [l EXCEPT !.pc = "op_client", !.aw = Ready(l.gc)]]
  ELSE IF l.pc = "op_client"
  THEN \* const client = await this.getClient(); and the operation goes on
       LET slot == Program(l.tool)[l.ip].slot
           l2 == IF slot = "held"
                 THEN [l EXCEPT !.held = r.v, !.ip = l.ip + 1]
                 ELSE [l EXCEPT !.cur = r.v, !.ip = l.ip + 1]
       IN enter(s, l2, c)
  ELSE \* l.pc = "si_token": searchIdentities, lines 993-1005
       issue(s, [l EXCEPT !.ip = l.ip + 1], BearerHeader(r.v))

AxiosErrorMessage(status) ==
  <<"Request failed with status code ", ToString(status)>>

Statuses == {200, 401, 404, 500}

\* response.data.workItems of an answer to the WIQL request: missing, or a
\* list of references.
NoBody == [present |-> FALSE, refs |-> <<>>]
Bodies == {NoBody} \cup [present : {TRUE}, refs : {<<>>, <<7, 8>>}]

\* The bodies that make a difference to the request frame l awaits.
BodiesFor(l) ==
  IF l.pc = "op_http" /\ l.ip \in DOMAIN Program(l.tool)
     /\ Program(l.tool)[l.ip].i = "wiql"
  THEN Bodies
  ELSE {NoBody}

\* A catch that takes every error status for "not found".
isNotFound_AnyError(status) == status # 200

\* error.response?.status === 404
isNotFound(status) == status = 404

\* An operation that answers a failed request by sending it once more.
requestFailed_Retry(s, l, status) ==
  [s |-> s, l |-> [l EXCEPT !.sent = l.sent + 1]]

\* The request has failed, and the error leaves the operation: no catch, or a
\* catch that throws it again.
requestFailed(s, l, status) ==
  Throw(s, l, "remote", AxiosErrorMessage(status))

\* The HTTP response of the request frame l awaits.
httpResponse(s, l, status, body, c) ==
  LET wiql == Program(l.tool)[l.ip].i = "wiql"
      l2 == IF wiql /\ status = 200
            THEN [l EXCEPT !.got = [status |-> status, present |-> body.present,
                                    refs |-> body.refs]]
            ELSE [l EXCEPT !.got.status = status]
  IN
  IF isNotFound(status) /\ On404(l.tool) # "throw"
  THEN finish(s, l2, On404(l.tool))
  ELSE IF status # 200
  THEN requestFailed(s, l2, status)
  ELSE IF wiql
  THEN enter(s, [l2 EXCEPT !.ip = l.ip + 1, !.ids = body.refs], c)
  ELSE enter(s, [l2 EXCEPT !.ip = l.ip + 1], c)

\* An argument that was not given, and a number.
Undefined == [k |-> "undefined", v |-> 0]
Num(n) == [k |-> "number", v |-> n]

\* args.<name>, handed on as it came.
Field(name) == [k |-> name, v |-> 0]

\* (x as number) || dflt
OrDefault(x, dflt) == IF x = Undefined \/ x = Num(0) THEN Num(dflt) ELSE x

\* The argument objects of a call: the value of top, every other field as it
\* came.
ArgObjects == [top : {Undefined, Num(0), Num(5)}]

Invocation(method, args) == [method |-> method, args |-> args]
NoInvocation == Invocation("", <<>>)

\* The client method a case of the switch calls, and the arguments it passes:
\* the cases of index.ts (const x = args?.x as T; azureClient.m(...)).
StdioCall(t, a) ==
  CASE t = "list_projects" -> Invocation("getProjects", <<>>)
    [] t = "create_branch" ->
         Invocation("createBranch", <<Field("project"), Field("repositoryId"),
                                      Field("name"), Field("sourceBranch")>>)
    [] t = "get_identity_ids" ->
         Invocation("searchIdentities", <<Field("searchFilter")>>)
    [] t = "list_team_members" ->
         Invocation("getTeamMembers", <<Field("project"), Field("team")>>)
    [] t = "list_boards" ->
         Invocation("getBoards", <<Field("project"), Field("team")>>)
    [] t = "get_advanced_security_alerts" ->
         Invocation("getAdvancedSecurityAlerts",
                    <<Field("project"), Field("repositoryId"), Field("severity"),
                      Field("state"), OrDefault(a.top, 100)>>)
    [] t = "list_backlogs" ->
         Invocation("listBacklogs", <<Field("project"), Field("team")>>)
    [] t = "list_backlog_work_items" ->
         Invocation("listBacklogWorkItems",
                    <<Field("project"), Field("team"), Field("backlogId")>>)
    [] t = "get_pull_request" ->
         Invocation("getPullRequestById",
                    <<Field("project"), Field("repositoryId"),
                      Field("pullRequestId")>>)
    [] t = "get_advanced_security_alert_details" ->
         Invocation("getAdvancedSecurityAlertDetails",
                    <<Field("project"), Field("repositoryId"), Field("alertId")>>)
    [] t = "query_work_items" ->
         Invocation("queryWorkItems", <<Field("wiql"), Field("project")>>)
    [] t = "get_work_items_by_ids" ->
         Invocation("getWorkItems", <<Field("ids"), Field("project")>>)
    [] t = "create_iteration" ->
         Invocation("createIteration",
                    <<Field("project"), Field("name"), Field("startDate"),
                      Field("finishDate"), Field("parentPath")>>)
    [] OTHER -> NoInvocation

\* The same for the cases of executeToolInternal of functions/mcp.ts
\* (return client.m(args.x, ...)).
McpCall(t, a) ==
  CASE t = "list_projects" -> Invocation("getProjects", <<>>)
    [] t = "create_branch" ->
         Invocation("createBranch", <<Field("project"), Field("repositoryId"),
                                      Field("name"), Field("sourceBranch")>>)
    [] t = "get_identity_ids" ->
         Invocation("searchIdentities", <<Field("searchFilter")>>)
    [] t = "list_team_members" ->
         Invocation("getTeamMembers", <<Field("project"), Field("team")>>)
    [] t = "list_boards" ->
         Invocation("getBoards", <<Field("project"), Field("team")>>)
    [] t = "get_advanced_security_alerts" ->
         Invocation("getAdvancedSecurityAlerts",
                    <<Field("project"), Field("repositoryId"), Field("severity"),
                      Field("state"), a.top>>)
    [] t = "list_backlogs" ->
         Invocation("listBacklogs", <<Field("project"), Field("team")>>)
    [] t = "list_backlog_work_items" ->
         Invocation("listBacklogWorkItems",
                    <<Field("project"), Field("team"), Field("backlogId")>>)
    [] t = "get_pull_request" ->
         Invocation("getPullRequestById",
                    <<Field("project"), Field("repositoryId"),
                      Field("pullRequestId")>>)
    [] t = "get_advanced_security_alert_details" ->
         Invocation("getAdvancedSecurityAlertDetails",
                    <<Field("project"), Field("repositoryId"), Field("alertId")>>)
    [] t = "query_work_items" ->
         Invocation("queryWorkItems", <<Field("wiql"), Field("project")>>)
    [] t = "get_work_items_by_ids" ->
         Invocation("getWorkItems", <<Field("ids"), Field("project")>>)
    [] t = "get_build_changes" ->
         Invocation("getBuildChanges", <<Field("project"), Field("buildId")>>)
    [] OTHER -> NoInvocation

\* The call a dispatcher makes of a tool name and an argument object.
Call(ad, t, a) == IF ad = "stdio" THEN StdioCall(t, a) ELSE McpCall(t, a)

\* The public methods of class AzureDevOpsClient.
ClientMethods ==
  {"getProjects", "getWorkItems", "queryWorkItems", "createWorkItem",
   "updateWorkItem", "updateWorkItemsBatch", "addChildWorkItems",
   "linkWorkItems", "unlinkWorkItem", "addArtifactLink",
   "linkWorkItemToPullRequest", "addWorkItemComment", "getMyWorkItems",
   "getWorkItemsForIteration", "listBacklogs", "listBacklogWorkItems",
   "getQueryResults", "getWorkItemTypes", "getTeams", "getTeamMembers",
   "getRepositories", "getRepositoryById", "getBranches", "getMyBranches",
   "getBranchByName", "createBranch", "searchCommits", "getCommits",
   "getFileContent", "listPullRequestsByCommits", "updatePullRequest",
   "updatePullRequestReviewers", "listPullRequestThreads",
   "listPullRequestThreadComments", "createPullRequestThread",
   "updatePullRequestThread", "replyToPullRequestComment", "getPullRequests",
   "getPullRequestById", "createPullRequest", "getBuilds",
   "getBuildDefinitions", "getPipelines", "getBuildStatus", "getBuildLog",
   "getBuildLogById", "getBuildChanges", "getBuildDefinitionRevisions",
   "createPipeline", "runPipeline", "getPipelineRun", "listPipelineRuns",
   "updateBuildStage", "getIterations", "createIterations",
   "getTeamIterations", "assignIterations", "getIterationCapacities",
   "getTeamCapacity", "updateTeamCapacity", "getAreas", "searchCode",
   "searchWorkItems", "searchWiki", "searchIdentities", "getCurrentUser",
   "getBoards", "getQueries", "getWorkItemRevisions", "getWorkItemComments",
   "getWikis", "getWiki", "listWikiPages", "getWikiPageContent",
   "createOrUpdateWikiPage", "getTestPlans", "createTestPlan",
   "listTestSuites", "createTestSuite", "addTestCasesToSuite",
   "listTestCases", "createTestCase", "updateTestCaseSteps",
   "getTestResultsFromBuild", "getAdvancedSecurityAlerts",
   "getAdvancedSecurityAlertDetails"}

\* The names GET /api/tools of the function app answers with.
ApiTools ==
  {"list_projects", "list_project_teams", "list_team_members",
   "query_work_items", "get_work_items_by_ids", "create_work_item",
   "update_work_item", "list_repositories", "list_branches", "list_commits",
   "get_file_content", "list_pull_requests", "get_pull_request",
   "create_pull_request", "update_pull_request", "get_builds",
   "list_build_definitions", "list_pipelines", "run_pipeline",
   "list_iterations", "list_team_iterations", "list_areas", "search_code",
   "search_work_items", "search_wiki", "list_wikis", "get_wiki_page",
   "create_or_update_wiki_page", "list_test_plans", "create_test_plan",
   "list_test_suites", "get_advanced_security_alerts",
   "get_advanced_security_alert_details"}

\* The client method the case of a tool is bound to.
BoundMethod(ad, t) == Call(ad, t, [top |-> Undefined]).method

\* Calling a method the client object does not have throws a TypeError.
NotAFunction(method) == <<"azureClient.", method, " is not a function">>

\* A switch with no default branch: every name goes to its operation.
executeToolInternal_NoDefault(s, l, c) == enter(s, l, c)

\* The switch of the dispatcher, up to the first await of the operation.
executeToolInternal(s, l, c) ==
  IF l.tool \notin Cases(adapter)
  THEN [s |-> s,
        l |-> [l EXCEPT !.pc = "done", !.outcome = UnknownTool(l.tool),
                        !.cause = "unknown"]]
  ELSE IF BoundMethod(adapter, l.tool) \notin ClientMethods
  THEN Throw(s, l, "nomethod", NotAFunction(BoundMethod(adapter, l.tool)))
  ELSE enter(s, l, c)

\* The tools/call handler, up to its first await.  The function app makes its
\* client in the handler (getClient() of functions/mcp.ts); the stdio server
\* made it when the module was loaded.
callTool(s, l, c) ==
  IF adapter = "mcp" /\ constructorError(AZURE_DEVOPS_ORG_URL) # ""
  THEN Throw(s, l, "config", <<constructorError(AZURE_DEVOPS_ORG_URL)>>)
  ELSE executeToolInternal(s, l, c)

\* ------------------------------------------- HTTP endpoints of the function app
\* The values a key position of a request may hold: nothing, the configured
\* key, another key; the Authorization header holds a key as a Bearer token
\* or bare.
KeyValues == {Absent, <<"k">>, <<"x">>}
AuthorizationValues ==
  {Absent, <<"Bearer ", "k">>, <<"Bearer ", "x">>, <<"k">>}

\* The key positions a request fills.
Filled(r) ==
  {n \in {"xApiKey", "authorization", "code", "key"} : r[n] # Absent}

\* The POST /api/mcp requests.
HttpRequests ==
  {r \in [route : {"mcp"}, xApiKey : KeyValues,
          authorization : AuthorizationValues, code : KeyValues,
          key : KeyValues] : Cardinality(Filled(r)) <= MaxKeyPositions}

RpcMethods ==
  {"initialize", "notifications/initialized", "tools/list", "tools/call",
   "ping"}
RpcIds == {"1"}
RpcRequests == [method : RpcMethods, id : RpcIds]

\* !v for a string or null
Falsy(v) == v \in {Absent, <<>>}
\* a || b
Or(a, b) == IF Falsy(a) THEN b ELSE a

\* v?.replace('Bearer ', ''): the first occurrence goes, null stays null.
RECURSIVE replaceBearer(_)
replaceBearer(v) ==
  IF v = Absent \/ v = <<>> THEN v
  ELSE IF Head(v) = "Bearer " THEN Tail(v)
  ELSE <<Head(v)>> \o replaceBearer(Tail(v))

\* A check that lets every request in.
validateApiKey_Open(r) == TRUE

validateApiKey(r) ==
  LET expectedKey == MCP_API_KEY IN
  IF Falsy(expectedKey)
  THEN TRUE
  ELSE LET headerKey == Or(r.xApiKey, replaceBearer(r.authorization)) IN
       IF headerKey = expectedKey
       THEN TRUE
       ELSE LET queryKey == Or(r.code, r.key) IN queryKey = expectedKey

\* The handler returns a response.
Respond(s, l, o, why) ==
  [s |-> s,
   l |-> [l EXCEPT !.pc = "done", !.aw = NoAwait, !.outcome = o, !.cause = why]]

Unauthorized ==
  [how |-> "returned", status |-> 401, isError |-> FALSE, code |-> -32000,
   text |-> <<"Unauthorized: Invalid or missing API key">>]
Result(v) ==
  [how |-> "returned", status |-> 200, isError |-> FALSE, code |-> 0,
   text |-> <<v>>]
MethodNotFound(m) ==
  [how |-> "returned", status |-> 200, isError |-> FALSE, code |-> -32601,
   text |-> <<"Method not found: ", m>>]

\* The handler of 'mcp', up to await request.json().
mcp(s, l, r) ==
  IF ~validateApiKey(r)
  THEN Respond(s, l, Unauthorized, "unauthorized")
  ELSE [s |-> s, l |-> [l EXCEPT !.pc = "mcp_body", !.aw = Ready(Null)]]

\* Whether the handler gets to getClient() for a method.
ReachesGetClient(m) == m \notin {"initialize", "notifications/initialized"}

\* The handler of 'mcp' from the body on, up to the first await of the tool.
mcpBody(s, l, b, c) ==
  IF b.method = "initialize"
  THEN Respond(s, l, Result("serverInfo"), "")
  ELSE IF b.method = "notifications/initialized"
  THEN Respond(s, l, Result("{}"), "")
  ELSE IF constructorError(AZURE_DEVOPS_ORG_URL) # ""
  THEN Throw(s, l, "config", <<constructorError(AZURE_DEVOPS_ORG_URL)>>)
  ELSE IF b.method = "tools/list"
  THEN Respond(s, l, Result("tools"), "")
  ELSE IF b.method = "tools/call"
  THEN executeToolInternal(s, [l EXCEPT !.pc = "start", !.aw = NoAwait], c)
  ELSE Respond(s, l, MethodNotFound(b.method), "rpcmethod")

\* What is left of a request once its body has been read.
Read(r) == [NoRequest EXCEPT !.route = r.route]

\* The id member of the body of the response to dispatch d: null in the 401
\* answer and in the answer of the catch block, the request's id otherwise.
jsonBodyId(d) ==
  IF outcome[d].code \in {-32000, -32603} THEN NullId ELSE rpc[d].id

\* ------------------------------------------------------------ the bridge
\* What the remote instance may answer to the bridge's POST: a result, a
\* JSON-RPC error with status 200, or a JSON-RPC error with status 500 or 401.
RemoteAnswers ==
  {[status |-> 200, error |-> FALSE], [status |-> 200, error |-> TRUE],
   [status |-> 500, error |-> TRUE], [status |-> 401, error |-> TRUE]}

\* The error object of the remote instance's answer: the code it sends with
\* each status, and its message.
RemoteErrorCode(status) ==
  CASE status = 500 -> -32603
    [] status = 401 -> -32000
    [] OTHER -> -32601
RemoteErrorMessage == <<"remote message">>

\* callRemoteMcp after the POST has answered, and the handler that awaits it.
callRemoteMcp(l, a) ==
  IF a.status # 200
  THEN [l EXCEPT !.pc = "done", !.aw = NoAwait, !.cause = "remote",
                 !.got.status = a.status,
                 !.outcome = [how |-> "threw", status |-> 0, isError |-> FALSE,
                              code |-> 0, text |-> AxiosErrorMessage(a.status)]]
  ELSE IF a.error
  THEN [l EXCEPT !.pc = "done", !.aw = NoAwait, !.cause = "remote",
                 !.got.status = a.status,
                 !.outcome = [how |-> "threw", status |-> 0, isError |-> FALSE,
                              code |-> 0, text |-> RemoteErrorMessage]]
  ELSE [l EXCEPT !.pc = "done", !.aw = NoAwait,
                 !.got.status = a.status,
                 !.outcome = [how |-> "returned", status |-> 0,
                              isError |-> FALSE, code |-> 0, text |-> JsonResult]]

\* ---------------------------------------------------------- event loop
\* A new invocation takes the first frame that is free.
Free(d) ==
  /\ pc[d] \in {"idle", "done"}
  /\ \A e \in Dispatches : e < d => pc[e] \notin {"idle", "done"}

Runnable(d) ==
  \/ aw[d].k = "ready"
  \/ aw[d].k = "promise" /\ flights[aw[d].v.id].state # "pending"

\* No microtask is left: the loop takes the next I/O event.
Quiescent == \A d \in Dispatches : ~Runnable(d)

\* A settled promise that neither tokenPromise nor an await refers to.
Collected == [state |-> "collected", at |-> "", err |-> "", token |-> Null]

Collect(fl, tp, awaits) ==
  [p \in DOMAIN fl |->
     IF \/ fl[p].state = "pending"
        \/ tp = p
        \/ \E d \in Dispatches : awaits[d] = OnPromise(p)
     THEN fl[p]
     ELSE Collected]

\* A frame that has returned keeps its result only.
Returned(l) ==
  IF l.pc = "done"
  THEN [l EXCEPT !.ip = 1, !.cur = NoClient, !.held = NoClient, !.gc = NoClient,
                 !.ids = <<>>]
  ELSE l

Install(d, r0) ==
  \E r \in {[s |-> r0.s, l |-> Returned(r0.l)]} :
  /\ sharedCredential' = r.s.sharedCredential
  /\ cachedToken' = r.s.cachedToken
  /\ tokenPromise' = r.s.tokenPromise
  /\ flights' = Collect(r.s.flights, r.s.tokenPromise, [aw EXCEPT ![d] = r.l.aw])
  /\ axiosInstance' = r.s.axiosInstance
  /\ initialized' = r.s.initialized
  /\ instances' = r.s.instances
  /\ wire' = r.s.wire
  /\ pc' = [pc EXCEPT ![d] = r.l.pc]
  /\ tool' = [tool EXCEPT ![d] = r.l.tool]
  /\ ip' = [ip EXCEPT ![d] = r.l.ip]
  /\ aw' = [aw EXCEPT ![d] = r.l.aw]
  /\ cur' = [cur EXCEPT ![d] = r.l.cur]
  /\ held' = [held EXCEPT ![d] = r.l.held]
  /\ gc' = [gc EXCEPT ![d] = r.l.gc]
  /\ ids' = [ids EXCEPT ![d] = r.l.ids]
  /\ got' = [got EXCEPT ![d] = r.l.got]
  /\ batch' = [batch EXCEPT ![d] = r.l.batch]
  /\ sent' = [sent EXCEPT ![d] = r.l.sent]
  /\ asked' = [asked EXCEPT ![d] = r.l.asked]
  /\ outcome' = [outcome EXCEPT ![d] = r.l.outcome]
  /\ cause' = [cause EXCEPT ![d] = r.l.cause]

NewFrame(t) ==
  [pc |-> "start", tool |-> t, ip |-> 1, aw |-> NoAwait, cur |-> NoClient,
   held |-> NoClient, gc |-> NoClient, ids |-> <<>>, got |-> NoResponse,
   batch |-> <<>>, sent |-> 0, asked |-> 0,
   outcome |-> NoOutcome, cause |-> ""]

\* The state after startup, for the workloads W, but for the API key.
Boot(W) ==
  /\ adapter \in Adapters
  /\ workload \in W
  /\ USE_PAT \in (IF adapter = "bridge" THEN {FALSE} ELSE BOOLEAN)
  /\ AZURE_DEVOPS_ORG_URL \in
       (IF adapter = "bridge" THEN {"https://dev.azure.com/org"} ELSE OrgUrls)
  \* index.ts makes the client at load; a throw there ends the process
  /\ azureClient = (adapter = "stdio" /\ constructorError(AZURE_DEVOPS_ORG_URL) = "")
  /\ now = 0
  /\ sharedCredential = 0
  /\ cachedToken = Null
  /\ tokenPromise = 0
  /\ flights = <<>>
  /\ axiosInstance = 0
  /\ initialized = FALSE
  /\ instances = <<>>
  /\ pc = [d \in Dispatches |-> "idle"]
  /\ tool = [d \in Dispatches |-> ""]
  /\ ip = [d \in Dispatches |-> 1]
  /\ aw = [d \in Dispatches |-> NoAwait]
  /\ cur = [d \in Dispatches |-> NoClient]
  /\ held = [d \in Dispatches |-> NoClient]
  /\ gc = [d \in Dispatches |-> NoClient]
  /\ ids = [d \in Dispatches |-> <<>>]
  /\ got = [d \in Dispatches |-> NoResponse]
  /\ batch = [d \in Dispatches |-> <<>>]
  /\ sent = [d \in Dispatches |-> 0]
  /\ asked = [d \in Dispatches |-> 0]
  /\ outcome = [d \in Dispatches |-> NoOutcome]
  /\ cause = [d \in Dispatches |-> ""]
  /\ nStarted = 0
  /\ wire = {}
  /\ request = [d \in Dispatches |-> NoRequest]
  /\ rpc = [d \in Dispatches |-> NoRpc]

\* The state after startup where no API key is configured.
Start(W) ==
  /\ Boot(W)
  /\ MCP_API_KEY = <<>>

Init == Start(Workloads)

\* A tools/call request arrives at the stdio server or the function app.
CallTool(d, t, a, c) ==
  /\ adapter # "bridge"
  /\ adapter = "stdio" => azureClient
  /\ Quiescent
  /\ Free(d)
  /\ nStarted < MaxRequests
  /\ nStarted' = nStarted + 1
  /\ Install(d, callTool(Shared, [NewFrame(t) EXCEPT !.ids = a], c))
  /\ azureClient' = (azureClient \/ constructorError(AZURE_DEVOPS_ORG_URL) = "")
  /\ UNCHANGED <<httpVars, USE_PAT, adapter, AZURE_DEVOPS_ORG_URL, workload, now>>

\* A continuation runs as a microtask.
Resume(d, c) ==
  /\ Runnable(d)
  /\ pc[d] # "mcp_body"
  /\ Install(d, resume(Shared, Local(d), c))
  /\ UNCHANGED <<httpVars, USE_PAT, adapter, AZURE_DEVOPS_ORG_URL, workload, azureClient, now, nStarted>>

\* sharedCredential.getToken() answers.
TokenExchangeEnds(p, a) ==
  /\ Quiescent
  /\ flights[p].state = "pending"
  /\ \E s2 \in {tokenRequestEnds(Shared, p, a)} :
        /\ cachedToken' = s2.cachedToken
        /\ tokenPromise' = s2.tokenPromise
        /\ flights' = Collect(s2.flights, s2.tokenPromise, aw)
  /\ UNCHANGED <<httpVars, USE_PAT, adapter, AZURE_DEVOPS_ORG_URL, workload, azureClient, now, sharedCredential, clientVars, procVars,
                 nStarted, wire>>

\* The remote API answers a request of dispatch d.
HttpResponse(d, status, body, c) ==
  /\ Quiescent
  /\ pc[d] = "op_http"
  /\ Install(d, httpResponse(Shared, Local(d), status, body, c))
  /\ UNCHANGED <<httpVars, USE_PAT, adapter, AZURE_DEVOPS_ORG_URL, workload, azureClient, now, nStarted>>

\* A tools/call request arrives at the bridge, which posts it to the remote.
BridgeCallTool(d, t) ==
  /\ adapter = "bridge"
  /\ Quiescent
  /\ Free(d)
  /\ nStarted < MaxRequests
  /\ nStarted' = nStarted + 1
  /\ Install(d, [s |-> Shared,
                 l |-> [NewFrame(t) EXCEPT !.pc = "bridge_http", !.aw = OnHttp,
                                           !.sent = 1]])
  /\ UNCHANGED <<httpVars, USE_PAT, adapter, AZURE_DEVOPS_ORG_URL, workload, azureClient, now>>

\* The remote instance answers the bridge.
BridgeResponse(d, a) ==
  /\ Quiescent
  /\ pc[d] = "bridge_http"
  /\ Install(d, [s |-> Shared, l |-> callRemoteMcp(Local(d), a)])
  /\ UNCHANGED <<httpVars, USE_PAT, adapter, AZURE_DEVOPS_ORG_URL, workload, azureClient, now, nStarted>>

\* A POST /api/mcp request arrives at the function app.
McpPost(d, r, b, t) ==
  /\ adapter = "mcp"
  /\ Quiescent
  /\ Free(d)
  /\ nStarted < MaxRequests
  /\ nStarted' = nStarted + 1
  /\ Install(d, mcp(Shared, NewFrame(t), r))
  /\ request' = [request EXCEPT ![d] = r]
  /\ rpc' = [rpc EXCEPT ![d] = b]
  /\ UNCHANGED <<MCP_API_KEY, USE_PAT, adapter, AZURE_DEVOPS_ORG_URL, workload,
                 azureClient, now>>

\* request.json() has answered: the handler goes on with the body.
McpBody(d, c) ==
  /\ pc[d] = "mcp_body"
  /\ Install(d, mcpBody(Shared, Local(d), rpc[d], c))
  /\ azureClient' = (\/ azureClient
                     \/ /\ ReachesGetClient(rpc[d].method)
                        /\ constructorError(AZURE_DEVOPS_ORG_URL) = "")
  /\ request' = [request EXCEPT ![d] = Read(request[d])]
  /\ UNCHANGED <<MCP_API_KEY, rpc, USE_PAT, adapter, AZURE_DEVOPS_ORG_URL,
                 workload, now, nStarted>>

\* GET /api/health or GET /api/tools arrives at the function app.
Get(d, route) ==
  /\ adapter = "mcp"
  /\ Quiescent
  /\ Free(d)
  /\ nStarted < MaxRequests
  /\ nStarted' = nStarted + 1
  /\ Install(d, Respond(Shared, NewFrame(""), Result(route), ""))
  /\ request' = [request EXCEPT ![d] = [NoRequest EXCEPT !.route = route]]
  /\ rpc' = [rpc EXCEPT ![d] = NoRpc]
  /\ UNCHANGED <<MCP_API_KEY, USE_PAT, adapter, AZURE_DEVOPS_ORG_URL, workload,
                 azureClient, now>>

\* Time passes.
Tick ==
  /\ now < MaxTicks * TickMs
  /\ now' = now + TickMs
  /\ UNCHANGED <<httpVars, USE_PAT, adapter, AZURE_DEVOPS_ORG_URL, workload, azureClient, credVars, clientVars, procVars, nStarted,
                 wire>>

Next ==
  \/ \E d \in Dispatches, t \in workload, c \in SyncChoices :
       \E a \in ArgIds(t) : CallTool(d, t, a, c)
  \/ \E d \in Dispatches, c \in SyncChoices : Resume(d, c)
  \/ \E p \in DOMAIN flights, a \in Answers : TokenExchangeEnds(p, a)
  \/ \E d \in Dispatches, status \in Statuses, c \in SyncChoices :
       \E body \in BodiesFor(Local(d)) : HttpResponse(d, status, body, c)
  \/ \E d \in Dispatches, t \in workload : BridgeCallTool(d, t)
  \/ \E d \in Dispatches, a \in RemoteAnswers : BridgeResponse(d, a)
  \/ Tick

Spec == Init /\ [][Next]_vars

\* The event loop runs every continuation that is ready, and every network
\* call that is out (a token exchange, a request to the remote API, the
\* bridge's request to the remote instance) returns or fails.
Microtasks(d) == \E c \in SyncChoices : Resume(d, c)
ExchangeReturns == \E p \in DOMAIN flights, a \in Answers : TokenExchangeEnds(p, a)
RequestReturns(d) ==
  \/ \E status \in Statuses, c \in SyncChoices :
       \E body \in BodiesFor(Local(d)) : HttpResponse(d, status, body, c)
  \/ \E a \in RemoteAnswers : BridgeResponse(d, a)

NetworkReturns ==
  /\ \A d \in Dispatches : WF_vars(Microtasks(d))
  /\ WF_vars(ExchangeReturns)
  /\ \A d \in Dispatches : WF_vars(RequestReturns(d))

\* The workloads of the termination check: one tool each, one for every shape
\* of operation (a request after getClient, with and without a catch of 404;
\* a request after getAccessToken; the fetch by ids with its early return; the
\* two-stage query; no operation at all).
LiveWorkloads ==
  {{"list_projects"}, {"list_team_members"}, {"get_identity_ids"},
   {"get_work_items_by_ids"}, {"query_work_items"}, {"not_a_real_tool"}}

\* The two-stage query is followed on the stdio server, whose handler differs
\* from the function app's in the shape of the result only.
LiveInit ==
  /\ Start(LiveWorkloads)
  /\ workload = {"query_work_items"} => adapter = "stdio"

LiveSpec == LiveInit /\ [][Next]_vars /\ NetworkReturns

\* The function app behind its HTTP endpoints, with and without an API key.
HttpWorkloads == {{"list_projects"}}
ApiKeys == {<<>>, <<"k">>}
GetRoutes == {"health", "tools"}

HttpInit ==
  /\ Boot(HttpWorkloads)
  /\ adapter = "mcp"
  /\ MCP_API_KEY \in ApiKeys

HttpNext ==
  \/ \E d \in Dispatches, r \in HttpRequests, b \in RpcRequests, t \in workload :
       McpPost(d, r, b, IF b.method = "tools/call" THEN t ELSE "")
  \/ \E d \in Dispatches, c \in SyncChoices : McpBody(d, c)
  \/ \E d \in Dispatches, route \in GetRoutes : Get(d, route)
  \/ \E d \in Dispatches, c \in SyncChoices : Resume(d, c)
  \/ \E p \in DOMAIN flights, a \in Answers : TokenExchangeEnds(p, a)
  \/ \E d \in Dispatches, status \in Statuses, c \in SyncChoices :
       \E body0 \in BodiesFor(Local(d)) : HttpResponse(d, status, body0, c)
  \/ Tick

HttpSpec == HttpInit /\ [][HttpNext]_vars

\* ------------------------------------------------------------ properties
\* The token requests whose getToken() call has suspended and not answered:
\* the upstream exchanges that are outstanding.
Outstanding == {p \in DOMAIN flights : flights[p].state = "pending"}

\* The dispatches that await promise p.
Awaiting(p) == {d \in Dispatches : aw[d] = OnPromise(p)}

\* C1: single-flight.  In interactive mode at most one upstream exchange is
\* outstanding at any time; every getAccessToken call that started while it
\* was outstanding awaits the promise of that one exchange (the in-flight
\* marker); and the callers of a fulfilled exchange all resolve to the token
\* that exchange returned, which is the token the cache was given.
C1_SingleFlight ==
  ~USE_PAT =>
    /\ Cardinality(Outstanding) <= 1
    /\ \A p \in Outstanding : tokenPromise = p
    /\ \A d \in Dispatches :
         aw[d].k = "promise" =>
           LET p == aw[d].v.id IN
           /\ flights[p].state = "pending" => p = tokenPromise
           /\ flights[p].state = "fulfilled" => flights[p].token = AadToken(p)
           /\ flights[p].state # "collected"

\* C1 witness: two callers have joined one exchange, and it has answered with
\* a token that both are about to receive.
C1_Witness ==
  \E d1, d2 \in Dispatches :
    /\ d1 # d2
    /\ aw[d1].k = "promise"
    /\ aw[d1] = aw[d2]
    /\ flights[aw[d1].v.id].state = "fulfilled"
    /\ Len(flights) = 1

\* C2: after a failed token exchange has been delivered to every caller that
\* awaited it, the in-flight marker no longer names it.
C2_MarkerClearedAfterFailure ==
  \A p \in DOMAIN flights :
    (flights[p].state = "rejected" /\ Awaiting(p) = {}) => tokenPromise # p

\* C3: when a token exchange has failed, every caller that awaits it (the
\* initiator and the callers that joined) completes, in its next step, with
\* that failure as an authentication failure of its dispatch: it obtains no
\* token, starts no token request of its own, and issues no request.
C3_FailureReachesEveryCaller ==
  [][\A d \in Dispatches :
       (/\ aw[d].k = "promise"
        /\ flights[aw[d].v.id].state = "rejected"
        /\ aw'[d] # aw[d])
       => /\ pc'[d] = "done"
          /\ cause'[d] = "auth"
          /\ outcome'[d] = Caught(<<flights[aw[d].v.id].err>>)
          /\ Len(flights') = Len(flights)
          /\ asked'[d] = asked[d]
          /\ sent'[d] = sent[d]
          /\ wire' = wire]_vars

\* C3 witness: one exchange was started, two dispatches awaited it, it failed
\* after suspending, and both dispatches have completed with the same failure.
C3_Witness ==
  \E d1, d2 \in Dispatches :
    /\ d1 # d2
    /\ pc[d1] = "done" /\ pc[d2] = "done"
    /\ cause[d1] = "auth" /\ cause[d2] = "auth"
    /\ outcome[d1] = outcome[d2]
    /\ asked[d1] = 1 /\ asked[d2] = 0
    /\ Len(flights) = 1
    /\ tokenPromise = 0

\* C4: a fulfilled exchange has left its token in the cache and the marker
\* empty, its callers receive that token; and the in-flight marker is set only
\* while an upstream exchange is outstanding.
C4_MarkerOnlyWhileOutstanding ==
  /\ \A p \in DOMAIN flights :
       flights[p].state = "fulfilled" =>
         /\ cachedToken # Null
         /\ cachedToken.token = AadToken(p)
         /\ flights[p].token = AadToken(p)
         /\ tokenPromise # p
  /\ tokenPromise # 0 => tokenPromise \in Outstanding

\* The labels at which a dispatch awaits getAccessToken().
TokenAwaits == {"ei_token", "gc_token", "si_token"}

\* C5: in interactive mode with no exchange outstanding, a getAccessToken call
\* returns the cached token and starts no token request if the cached expiry
\* is more than 60 seconds ahead, and starts a token request otherwise.
C5_CacheBoundary ==
  [][\A d \in Dispatches :
       (/\ ~USE_PAT
        /\ Outstanding = {}
        /\ pc'[d] \in TokenAwaits
        /\ pc'[d] # pc[d])
       => IF cachedToken # Null /\ cachedToken.expiresOn > now + RefreshMarginMs
          THEN aw'[d] = Ready(cachedToken.token) /\ Len(flights') = Len(flights)
          ELSE Len(flights') = Len(flights) + 1]_vars

\* C6: mode exclusivity.  With a static secret configured no token request is
\* ever started, the cached token, the in-flight marker and the interactive
\* credential stay empty, and the authorization is the same on every request:
\* getAccessToken() resolves to the configured secret, every client is built
\* with the header getAuthHeader() returns, and the requests that go out all
\* carry one and the same authorization.
C6_ModeExclusivity ==
  USE_PAT =>
    /\ flights = <<>>
    /\ cachedToken = Null
    /\ tokenPromise = 0
    /\ sharedCredential = 0
    /\ \A d \in Dispatches :
         /\ asked[d] = 0
         /\ aw[d].k # "promise"
         /\ pc[d] = "si_token" => aw[d] = Ready(PatSecret)
    /\ \A i \in DOMAIN instances : instances[i] = getAuthHeader
    /\ \A w1, w2 \in wire : w1 = w2

\* C7: in interactive mode no request goes out with an Authorization header
\* whose token is not the one the cache holds at the time it is issued.
C7_NoStaleHeader ==
  ~USE_PAT => \A w \in wire : ~w.stale

\* The failure and success results of the adapters' protocols.
IsFailure(o) == o.isError \/ o.code # 0
IsSuccess(o) ==
  ~o.isError /\ o.code = 0 /\ o.text \in {Json(v) : v \in {"result", "[]", "null"}}

\* C8: every tool invocation that has ended has produced one result of its
\* adapter's protocol, a success or a failure and not both: no error has left
\* the handler.
C8_ExactlyOneOutcome ==
  \A d \in Dispatches :
    pc[d] = "done" =>
      /\ outcome[d].how = "returned"
      /\ IsSuccess(outcome[d]) # IsFailure(outcome[d])

\* C9: a dispatch of a tool name that is not in the registry ends with the
\* failure that names the tool, having started no token request and issued no
\* request to the remote API, in both authentication modes.
C9_UnknownTool ==
  \A d \in Dispatches :
    (/\ adapter # "bridge"
     /\ pc[d] = "done"
     /\ tool[d] \notin Cases(adapter)
     /\ cause[d] # "config")
    => /\ outcome[d] = UnknownTool(tool[d])
       /\ IsFailure(outcome[d])
       /\ outcome[d].text = UnknownToolMessage(tool[d])
       /\ sent[d] = 0
       /\ asked[d] = 0

\* C9 witness: an unknown tool name has been dispatched and has ended, in
\* interactive mode with no token cached, and nothing has gone out.
C9_Witness ==
  \E d \in Dispatches :
    /\ adapter = "stdio"
    /\ ~USE_PAT
    /\ pc[d] = "done"
    /\ tool[d] = "not_a_real_tool"
    /\ cause[d] = "unknown"
    /\ cachedToken = Null
    /\ flights = <<>>
    /\ wire = {}

\* What a failure carries apart from its message text.
Kind(o) == [how |-> o.how, status |-> o.status, isError |-> o.isError,
            code |-> o.code]

FailureCauses == {"unknown", "auth", "remote"}

\* C10: on one adapter, the failures of an unknown tool name, of a failed
\* token exchange and of a rejected remote request differ in kind, not only in
\* their message text.
C10_FailureKinds ==
  \A d1, d2 \in Dispatches :
    (/\ adapter # "bridge"
     /\ pc[d1] = "done" /\ pc[d2] = "done"
     /\ cause[d1] \in FailureCauses /\ cause[d2] \in FailureCauses
     /\ cause[d1] # cause[d2])
    => Kind(outcome[d1]) # Kind(outcome[d2])

\* The list operations on things whose absence is a normal state.
ListOperations ==
  {"list_team_members", "list_boards", "list_backlogs",
   "list_backlog_work_items", "get_advanced_security_alerts"}

\* C11: a dispatch of a list operation (team members, boards, backlogs,
\* advanced-security alerts) whose request was answered 404 ends with a
\* success that carries the empty collection.
C11_NotFoundIsEmptyList ==
  \A d \in Dispatches :
    (pc[d] = "done" /\ tool[d] \in ListOperations /\ got[d].status = 404)
    => outcome[d] = SuccessOf("[]")

\* The operations that fetch one entity by its id.
EntityLookups == {"get_pull_request", "get_advanced_security_alert_details"}

\* C12: a dispatch of a single-entity lookup whose request was answered 404
\* ends with a failure, the remote error.
C12_NotFoundEntityFails ==
  \A d \in Dispatches :
    (pc[d] = "done" /\ tool[d] \in EntityLookups /\ got[d].status = 404)
    => /\ IsFailure(outcome[d])
       /\ cause[d] = "remote"

\* C13: a dispatch whose request was answered with an error status other
\* than 404 ends with the failure that carries that error, whatever the
\* operation does with a 404.
C13_OtherStatusesFail ==
  \A d \in Dispatches :
    (adapter # "bridge" /\ pc[d] = "done" /\ got[d].status \notin {0, 200, 404})
    => /\ outcome[d] = Caught(AxiosErrorMessage(got[d].status))
       /\ IsFailure(outcome[d])
       /\ cause[d] = "remote"

\* C13 witness: a team-members lookup was answered 401 and has ended with a
\* failure.
C13_Witness ==
  \E d \in Dispatches :
    /\ pc[d] = "done"
    /\ tool[d] = "list_team_members"
    /\ got[d].status = 401
    /\ IsFailure(outcome[d])

\* C14: a query whose first stage returned no reference ends with the empty
\* list after that one request; a query whose first stage returned references
\* issues one batch request, for exactly those ids, after the first stage was
\* answered; and a fetch by an empty id list ends with the empty list having
\* issued no request and asked for no token.
C14_EmptyIdShortCircuit ==
  \A d \in Dispatches :
    adapter # "bridge" =>
      /\ Len(batch[d]) <= 1
      /\ \A i \in DOMAIN batch[d] : batch[d][i] # <<>>
      /\ tool[d] = "query_work_items" =>
           /\ batch[d] # <<>> =>
                /\ got[d].present
                /\ batch[d] = <<got[d].refs>>
                /\ sent[d] = 2
           /\ (pc[d] = "done" /\ IsSuccess(outcome[d])) =>
                IF got[d].present /\ got[d].refs # <<>>
                THEN batch[d] = <<got[d].refs>> /\ sent[d] = 2
                ELSE /\ outcome[d] = SuccessOf("[]")
                     /\ batch[d] = <<>>
                     /\ sent[d] = 1
      /\ tool[d] = "get_work_items_by_ids" =>
           /\ pc[d] \notin {"idle", "done"} => ids[d] # <<>>
           /\ (pc[d] = "done" /\ batch[d] = <<>> /\ IsSuccess(outcome[d])) =>
                /\ outcome[d] = SuccessOf("[]")
                /\ sent[d] = 0
                /\ asked[d] = 0

\* C14 witness: one query has ended after its batch request for the two ids
\* its first stage returned, and a query whose first stage returned an empty
\* list has ended with the empty list.
C14_Witness ==
  \E d1, d2 \in Dispatches :
    /\ tool[d1] = "query_work_items" /\ tool[d2] = "query_work_items"
    /\ pc[d1] = "done" /\ pc[d2] = "done"
    /\ batch[d1] = << <<7, 8>> >> /\ outcome[d1] = SuccessOf("result")
    /\ got[d2].present /\ got[d2].refs = <<>>
    /\ outcome[d2] = SuccessOf("[]") /\ sent[d2] = 1

\* C15: the step that delivers a failed token exchange or a failed request to
\* a dispatch ends that dispatch: it starts no token request and issues no
\* request in that step, and has its result.
C15_NoRetry ==
  [][\A d \in Dispatches :
       (\/ /\ aw[d].k = "promise"
            /\ flights[aw[d].v.id].state = "rejected"
            /\ aw'[d] # aw[d]
        \/ /\ pc[d] = "op_http"
            /\ (aw'[d] # aw[d] \/ sent'[d] # sent[d])
            /\ got'[d].status # 200)
       => /\ pc'[d] = "done"
          /\ outcome'[d] # NoOutcome
          /\ asked'[d] = asked[d]
          /\ sent'[d] = sent[d]
          /\ wire' = wire
          /\ \A p \in DOMAIN flights' :
               flights'[p].state = "pending" =>
                 p \in DOMAIN flights /\ flights[p].state = "pending"]_vars

\* C15 witness: a dispatch has ended with the failure of its one request, and
\* another with the failure of the one token exchange it started.
C15_Witness ==
  \E d1, d2 \in Dispatches :
    /\ pc[d1] = "done" /\ cause[d1] = "remote" /\ sent[d1] = 1
    /\ got[d1].status = 500
    /\ pc[d2] = "done" /\ cause[d2] = "auth" /\ asked[d2] = 1 /\ sent[d2] = 0

\* C17: no tool invocation fails because of the organization URL.
C17_NoPerCallConfigFailure ==
  \A d \in Dispatches : cause[d] # "config"

\* C20: the bridge makes one outbound request for each call, holds no
\* credential state, and hands the remote instance's answer on as it is: a
\* result as a result, an error with the code and the message the remote sent.
C20_BridgeRelaysVerbatim ==
  adapter = "bridge" =>
    /\ cachedToken = Null /\ tokenPromise = 0 /\ flights = <<>>
    /\ sharedCredential = 0 /\ instances = <<>>
    /\ \A d \in Dispatches :
         pc[d] = "done" =>
           /\ sent[d] = 1
           /\ cause[d] = "remote" =>
                /\ outcome[d].code = RemoteErrorCode(got[d].status)
                /\ outcome[d].text = RemoteErrorMessage
           /\ cause[d] # "remote" => outcome[d].text = JsonResult

\* C16: when every network call that is out returns or fails, every dispatch
\* that has begun ends with a success or a failure; so does a caller that
\* joined a token exchange in flight and one that came after a failed one.
C16_Termination ==
  \A d \in Dispatches :
    (pc[d] \notin {"idle", "done"}) ~> (pc[d] = "done" /\ outcome[d] # NoOutcome)

\* C16 witness: a dispatch has ended with the failure of the token exchange it
\* started, and another has ended with that failure without having started an
\* exchange of its own.
C16_Witness ==
  \E d1, d2 \in Dispatches :
    /\ pc[d1] = "done" /\ cause[d1] = "auth" /\ asked[d1] = 1
    /\ pc[d2] = "done" /\ cause[d2] = "auth" /\ asked[d2] = 0
    /\ outcome[d2] # NoOutcome

\* The switch of the adapter has taken the tool name of dispatch d.
Accepted(d) ==
  /\ adapter \in {"stdio", "mcp"}
  /\ pc[d] = "done"
  /\ cause[d] \notin {"unknown", "config"}

\* C18: every tool name the dispatcher of an adapter has accepted is in that
\* adapter's tool listing, with a description that is not empty and a schema
\* whose required fields are among its properties.
C18_RegistryRoundTrip ==
  \A d \in Dispatches :
    Accepted(d) =>
      \E e \in getToolDefinitions(adapter) :
        /\ e.name = tool[d]
        /\ e.description # ""
        /\ e.required \subseteq e.properties

\* The other of the two server adapters.
OtherAdapter(a) == IF a = "stdio" THEN "mcp" ELSE "stdio"

\* C19: every tool name one of the stdio server and the function endpoint has
\* accepted is a name the other accepts too, and for every argument object the
\* two call the same client method with the same argument values.
C19_TransportIndependence ==
  \A d \in Dispatches :
    Accepted(d) =>
      /\ tool[d] \in Cases(OtherAdapter(adapter))
      /\ \A a \in ArgObjects :
           Call(adapter, tool[d], a) = Call(OtherAdapter(adapter), tool[d], a)

\* The tools whose operation is one getClient() and one request.
SingleCallTools ==
  {"list_projects", "list_team_members", "list_boards", "list_backlogs",
   "list_backlog_work_items", "get_pull_request", "get_build_changes",
   "get_advanced_security_alerts", "get_advanced_security_alert_details"}

\* C23: in interactive mode a dispatch of an operation of one getClient()
\* starts at most one token request, whatever the expiry of the token it gets.
C23_OneExchangePerOperation ==
  \A d \in Dispatches :
    (~USE_PAT /\ tool[d] \in SingleCallTools) => asked[d] <= 1

\* C25: with a static secret configured every request that goes out carries
\* the Basic header built from the secret, and none carries the secret as a
\* Bearer token.
C25_StaticTokenAlwaysBasic ==
  USE_PAT =>
    \A w \in wire :
      /\ w.scheme = getAuthHeader.scheme
      /\ w.enc = getAuthHeader.enc
      /\ ~(w.scheme = "Bearer" /\ w.kind = "pat")

\* C30: the client object creates its HTTP client instance at most once, and
\* every dispatch sends its requests through that one instance.
C30_OneHttpClient ==
  /\ Len(instances) <= 1
  /\ \A d \in Dispatches :
       /\ cur[d] # NoClient => cur[d] = Client(1)
       /\ held[d] # NoClient => held[d] = Client(1)

\* C21: there is no credential object before the first token request; the one
\* a token request makes is the first and stays the credential from then on;
\* and the token cache changes only when an outstanding exchange answers with
\* a token, to that token.
C21_CredentialLifecycle ==
  /\ sharedCredential = 0
  /\ cachedToken = Null
  /\ [][/\ sharedCredential # 0 => sharedCredential' = sharedCredential
        /\ sharedCredential' # sharedCredential =>
             /\ sharedCredential' = 1
             /\ Len(flights') = Len(flights) + 1
        /\ flights' = <<>> => sharedCredential' = 0
        /\ cachedToken' # cachedToken =>
             \E p \in Outstanding :
               /\ flights'[p].state # "pending"
               /\ cachedToken' # Null
               /\ cachedToken'.token = AadToken(p)]_vars

\* C21 witness: two token requests have been made with the one credential,
\* and the answer of the second has overwritten the cached token of the first.
C21_Witness ==
  /\ sharedCredential = 1
  /\ Len(flights) = 2
  /\ cachedToken # Null
  /\ cachedToken.token = AadToken(2)

\* C24: a step in which a token request fails (its exchange answers with no
\* token or an error, or its start throws) leaves the cached token and its
\* expiry as they were, and keeps the credential object if there is one.
C24_FailureLeavesCache ==
  [][(\E p \in DOMAIN flights' :
        /\ p \in DOMAIN flights => flights[p].state = "pending"
        /\ flights'[p].state = "rejected")
     => /\ cachedToken' = cachedToken
        /\ sharedCredential # 0 => sharedCredential' = sharedCredential]_vars

\* C24 witness: the cache holds the token of the first exchange, which has
\* run out, and a later exchange has failed.
C24_Witness ==
  \E p \in DOMAIN flights :
    /\ p > 1
    /\ flights[p].state = "rejected"
    /\ cachedToken # Null
    /\ cachedToken.token = AadToken(1)
    /\ cachedToken.expiresOn <= now + RefreshMarginMs
    /\ sharedCredential = 1

\* The tool names an adapter lists: its tools/list answer, and for the
\* function app the names of GET /api/tools as well.
ListedNames(a) ==
  {e.name : e \in getToolDefinitions(a)} \cup (IF a = "mcp" THEN ApiTools ELSE {})

\* C29: every tool name an adapter lists is dispatchable; a call of it never
\* ends with the unknown-tool failure and its case is bound to a method the
\* client provides, so the call never fails for the lack of the method.
C29_ListedIsDispatchable ==
  \A d \in Dispatches :
    (adapter \in {"stdio", "mcp"} /\ pc[d] = "done"
       /\ tool[d] \in ListedNames(adapter) /\ cause[d] # "config") =>
      /\ cause[d] # "unknown"
      /\ BoundMethod(adapter, tool[d]) \in ClientMethods
      /\ cause[d] # "nomethod"

\* The positions of a request that are read for the key.
KeyPositions == {"xApiKey", "authorization", "code", "key"}

\* The request holds the configured key in an accepted position: the
\* x-api-key header, the Authorization header as a Bearer token, the code or
\* the key query parameter.
Presents(r) ==
  \/ r.xApiKey = MCP_API_KEY
  \/ r.authorization = <<"Bearer ">> \o MCP_API_KEY
  \/ r.code = MCP_API_KEY
  \/ r.key = MCP_API_KEY

\* The request holds the configured key somewhere, in any form.
Carries(r) ==
  \E n \in KeyPositions :
    r[n] = MCP_API_KEY \/ r[n] = <<"Bearer ">> \o MCP_API_KEY

\* Dispatch d has just been given the POST /api/mcp request that arrived.
Arrives(d) ==
  /\ Free(d)
  /\ nStarted' = nStarted + 1
  /\ request'[d].route = "mcp"

\* C28: with a key configured, the check admits a request exactly when the
\* key is in one of the accepted positions, whatever the other positions hold:
\* a request that is being processed holds it, one that was answered 401
\* does not present it.
C28_KeyInAnyPosition ==
  MCP_API_KEY # <<>> =>
    \A d \in Dispatches :
      /\ pc[d] = "mcp_body" => Carries(request[d])
      /\ (pc[d] = "done" /\ cause[d] = "unauthorized") => ~Presents(request[d])

C27_ResponseCarriesRequestId ==
  \A d \in Dispatches :
    (request[d].route = "mcp" /\ pc[d] = "done" /\ cause[d] # "unauthorized")
      => jsonBodyId(d) = rpc[d].id

\* C22: POST /api/mcp gets to the dispatcher only for a request that carries
\* a valid key; GET /api/health and GET /api/tools are answered 200 at once
\* and leave the credential, the client and the remote API alone.
C22_KeyBeforeDispatch ==
  [][\A d \in Dispatches :
       /\ (/\ pc[d] = "mcp_body" /\ pc'[d] # "mcp_body"
           /\ rpc[d].method = "tools/call"
           /\ cause'[d] # "config")
          => /\ Filled(request[d]) # {}
             /\ MCP_API_KEY # <<>> => Carries(request[d])
       /\ (Free(d) /\ nStarted' = nStarted + 1
             /\ request'[d].route \in GetRoutes)
          => /\ pc'[d] = "done" /\ outcome'[d].status = 200
             /\ azureClient' = azureClient
             /\ <<sharedCredential, cachedToken, tokenPromise, flights>>'
                  = <<sharedCredential, cachedToken, tokenPromise, flights>>
             /\ <<axiosInstance, initialized, instances, wire>>'
                  = <<axiosInstance, initialized, instances, wire>>]_vars
====
